---------------------------- MODULE Spec2Model ----------------------------
(***************************************************************************)
(* A model of arcstr's ArcStr (src/src/arc_str.rs): a single-pointer,      *)
(* atomically reference-counted, immutable string handle whose record is   *)
(* either a heap allocation carrying a count (dynamic) or an embedded      *)
(* constant without one (static).                                          *)
(*                                                                         *)
(* Memory is a map from addresses to records {len_flags, strong, data}.    *)
(* Every thread owns a bag of Handles and runs clone and drop one memory   *)
(* access at a time, so that every interleaving of the atomic operations   *)
(* on the count is explored.  Atomic read-modify-write operations on one   *)
(* location are totally ordered under every memory ordering, so the count  *)
(* is a plain cell updated in one step; the orderings are recorded with    *)
(* each access.                                                            *)
(*                                                                         *)
(* Three specifications share the variables and the actions: Spec, the     *)
(* threads sharing one dynamic record and the empty record; ValueSpec, one *)
(* thread constructing Handles from text of every representation and       *)
(* comparing them; OverflowSpec, a record whose count leaking has brought  *)
(* close to isize::MAX.                                                    *)
(***************************************************************************)
EXTENDS Integers, Sequences, FiniteSets, TLC

(***************************************************************************)
(* Bounds of the model.                                                    *)
(***************************************************************************)
\* width of usize in bits (the platform's pointer width)
UsizeBits == 16
\* number of threads
NumThreads == 2
\* number of heap blocks the allocator can hand out (no block is reused)
NumHeap == 1
\* shares in existence at a time: Handles, exported raw pointers and the
\* results of the clones under way
MaxShares == 4
\* number of heap blocks of the one-thread program that constructs Handles
\* from text and compares them
NumValues == 2

(***************************************************************************)
(* Platform arithmetic.                                                    *)
(***************************************************************************)
USIZE_MOD == 2 ^ UsizeBits
USIZE_MAX == USIZE_MOD - 1
ISIZE_MAX == 2 ^ (UsizeBits - 1) - 1
\* size_of::<usize>() in bytes
USIZE_BYTES == (UsizeBits + 7) \div 8
\* align_of::<ThinInner>(): #[repr(C, align(8))]
ALIGN == 8
\* memoffset::offset_of!(ThinInner, data): after len_flags and strong
OFFSET_DATA == 2 * USIZE_BYTES

\* Option<T>: None is the empty sequence, Some(x) the sequence <<x>>
None == << >>
Some(x) == <<x>>

(***************************************************************************)
(* LenFlags: the packed (length, discriminant) header word.                *)
(***************************************************************************)
\* a faulty variant: the header word taken for the length, unshifted
LenFlags_len_unshifted(lf) == lf
\* LenFlags::len: self.0 >> 1
LenFlags_len(lf) == lf \div 2
\* a faulty variant: the discriminant bit tested the wrong way round
LenFlags_is_static_inverted(lf) == (lf % 2) = 1
\* LenFlags::is_static: (self.0 & 1) == 0
LenFlags_is_static(lf) == (lf % 2) = 0
\* LenFlags::from_len_static: l.checked_mul(2).map(|l| Self(l | !is_static))
LenFlags_from_len_static(l, static) ==
    IF l * 2 > USIZE_MAX THEN None
    ELSE Some(l * 2 + (IF static THEN 0 ELSE 1))
\* a faulty variant: the flag is or-ed into the length as it is, unshifted
LenFlags_from_len_static_raw_unshifted(l, static) ==
    IF static \/ l % 2 = 1 THEN l ELSE l + 1
\* LenFlags::from_len_static_raw: Self(l << 1 | !is_static), wrapping
LenFlags_from_len_static_raw(l, static) ==
    ((l * 2) % USIZE_MOD) + (IF static THEN 0 ELSE 1)
\* LenFlags::EMPTY_STATIC
LenFlags_EMPTY_STATIC == 0

(***************************************************************************)
(* Addresses and contents.                                                 *)
(***************************************************************************)
Threads == 1 .. NumThreads
\* the address of EMPTY_INNER, the canonical empty static record
EMPTY == 0
Heap == 1 .. NumHeap
Addrs == {EMPTY} \cup Heap
\* the contents a Handle is constructed from: "" and "ab"
Inputs == {<< >>, <<97, 98>>}
\* what reading a byte outside the payload yields
OutOfBounds == -1

VARIABLES
    mem,       \* mem[a]: the record at address a: len_flags, strong, data
    alloc,     \* alloc[a]: "static", "unalloc", "live" or "freed"
    layout,    \* layout[a]: the Layout <<size, align>> a was allocated with
    frees,     \* frees[a]: how many times dealloc was called on a
    handles,   \* handles[t][a]: the number of Handles to a that thread t owns
    raw,       \* raw[a]: pointers to a exported by into_raw, not yet imported
    pc,        \* pc[t]: where thread t is inside clone or drop
    this,      \* this[t]: the record pointer of the operation t is inside
    aborted    \* the process has aborted

vars == <<mem, alloc, layout, frees, handles, raw, pc, this, aborted>>

(***************************************************************************)
(* Memory accesses.  An access names the block, the field, the kind of     *)
(* access and its ordering, and carries the state of the block at the      *)
(* time of the access.                                                     *)
(***************************************************************************)
Acc(a, field, kind, ord) ==
    [addr |-> a, field |-> field, kind |-> kind, ord |-> ord, st |-> alloc[a]]
\* a plain read through the raw pointer
Rd(a, field) == Acc(a, field, "read", "plain")
\* the result of an operation together with the accesses it makes
Res(ret, acc) == [ret |-> ret, acc |-> acc]

RECURSIVE SumOver(_, _)
SumOver(f, S) ==
    IF S = {} THEN 0
    ELSE LET x == CHOOSE y \in S : TRUE IN f[x] + SumOver(f, S \ {x})
\* the Handles to p, over all threads
HandlesTo(p) == SumOver([t \in Threads |-> handles[t][p]], Threads)
\* the live shares of p: Handles and exported raw pointers
Shares(p) == HandlesTo(p) + raw[p]
\* the threads inside a clone of p, before its increment
Cloning(p) == {t \in Threads : pc[t] = "clone_add" /\ this[t] = p}
\* the threads inside a drop of p, before its decrement
Dropping(p) == {t \in Threads : pc[t] = "drop_sub" /\ this[t] = p}
\* the threads inside a drop of p that saw the count go from 1 to 0
Destroying(p) == {t \in Threads : pc[t] \in {"drop_acq", "destroy"} /\ this[t] = p}
\* all the shares there are, and the ones the clones under way will add
TotalShares ==
    SumOver([p \in DOMAIN raw |-> Shares(p) + Cardinality(Cloning(p))],
            DOMAIN raw)

(***************************************************************************)
(* The records.                                                            *)
(***************************************************************************)
\* EMPTY_INNER: ThinInnerStatic { len_flags: EMPTY_STATIC, strong: 0, data: [] }
EMPTY_INNER == [len_flags |-> LenFlags_EMPTY_STATIC, strong |-> 0, data |-> << >>]
\* a block the allocator has not handed out
Unallocated == [len_flags |-> 0, strong |-> 0, data |-> << >>]

\* ThinInner::get_len_flags: *p.cast(), the word at offset 0
get_len_flags(p) == mem[p].len_flags
\* a faulty variant: the count taken to sit at offset 0, on the header word
store_strong_at_zero(p, v) == [mem EXCEPT ![p].len_flags = v]
\* (*this).strong, stored to
store_strong(p, v) == [mem EXCEPT ![p].strong = v]

Init ==
    /\ mem = [a \in Addrs |-> IF a = EMPTY THEN EMPTY_INNER ELSE Unallocated]
    /\ alloc = [a \in Addrs |-> IF a = EMPTY THEN "static" ELSE "unalloc"]
    /\ layout = [a \in Addrs |-> <<0, 0>>]
    /\ frees = [a \in Addrs |-> 0]
    /\ handles = [t \in Threads |-> [a \in Addrs |-> 0]]
    /\ raw = [a \in Addrs |-> 0]
    /\ pc = [t \in Threads |-> "idle"]
    /\ this = [t \in Threads |-> EMPTY]
    /\ aborted = FALSE

\* thread t gains a Handle holding pointer p
Gain(t, p) == [handles EXCEPT ![t][p] = @ + 1]
\* thread t gives up one Handle holding pointer p
Lose(t, p) == [handles EXCEPT ![t][p] = @ - 1]
\* thread t is between operations and the process runs
Idle(t) == ~aborted /\ pc[t] = "idle"

(***************************************************************************)
(* Construction.                                                           *)
(***************************************************************************)
\* a faulty variant: no size check
alloc_overflows_never(num_bytes) == FALSE
\* ThinInner::allocate, the size check:
\*   num_bytes >= (isize::MAX as usize) - (mo + ALIGN)
alloc_overflows(num_bytes) == num_bytes >= ISIZE_MAX - (OFFSET_DATA + ALIGN)
\* ThinInner::allocate: Layout::from_size_align_unchecked(num_bytes + mo, ALIGN)
allocate_layout(num_bytes) == <<num_bytes + OFFSET_DATA, ALIGN>>
\* a faulty variant: the count of a new record starts at 0
allocate_record_zero(data) ==
    [len_flags |-> LenFlags_from_len_static_raw(Len(data), FALSE),
     strong |-> 0,
     data |-> data]
\* a faulty variant: the pointer is handed out before the payload is copied
allocate_record_no_payload(data) ==
    [len_flags |-> LenFlags_from_len_static_raw(Len(data), FALSE),
     strong |-> 1,
     data |-> << >>]
\* ThinInner::allocate: the record written into the new block:
\*   len_flags, then strong = AtomicUsize::new(1), then the payload copied
allocate_record(data) ==
    [len_flags |-> LenFlags_from_len_static_raw(Len(data), FALSE),
     strong |-> 1,
     data |-> data]
\* alloc::alloc::alloc: the block handed out (the lowest never used), or
\* None (null) when the heap is exhausted
alloc_block ==
    LET unused == {a \in DOMAIN alloc : alloc[a] = "unalloc"}
    IN  IF unused # {}
        THEN Some(CHOOSE a \in unused : \A b \in unused : a <= b)
        ELSE None

\* a faulty variant: no content is taken for empty
str_is_empty_never(s) == FALSE
\* s.is_empty()
str_is_empty(s) == Len(s) = 0

\* a faulty variant: the empty Handle is a record of its own on the heap
New_allocates(t) ==
    /\ Idle(t)
    /\ TotalShares < MaxShares
    /\ alloc_block # None
    /\ LET p == alloc_block[1] IN
       /\ alloc' = [alloc EXCEPT ![p] = "live"]
       /\ layout' = [layout EXCEPT ![p] = allocate_layout(0)]
       /\ mem' = [mem EXCEPT ![p] = allocate_record(<< >>)]
       /\ handles' = Gain(t, p)
    /\ UNCHANGED <<frees, raw, pc, this, aborted>>
\* ArcStr::new: EMPTY
New(t) ==
    /\ Idle(t)
    /\ TotalShares < MaxShares
    /\ handles' = Gain(t, EMPTY)
    /\ UNCHANGED <<mem, alloc, layout, frees, raw, pc, this, aborted>>

\* impl From<&str> for ArcStr, with ThinInner::allocate
From_str(t, s) ==
    /\ Idle(t)
    /\ IF str_is_empty(s)
       THEN /\ handles' = Gain(t, EMPTY)
            /\ UNCHANGED <<mem, alloc, layout, frees, pc, aborted>>
       ELSE IF alloc_overflows(Len(s))
       THEN \* alloc_overflow(): panic!, before anything is allocated; the
            \* calling thread unwinds
            /\ pc' = [pc EXCEPT ![t] = "panicked"]
            /\ UNCHANGED <<mem, alloc, layout, frees, handles, aborted>>
       ELSE IF alloc_block = None
       THEN \* handle_alloc_error: the process aborts
            /\ aborted' = TRUE
            /\ UNCHANGED <<mem, alloc, layout, frees, handles, pc>>
       ELSE LET p == alloc_block[1] IN
            /\ alloc' = [alloc EXCEPT ![p] = "live"]
            /\ layout' = [layout EXCEPT ![p] = allocate_layout(Len(s))]
            /\ mem' = [mem EXCEPT ![p] = allocate_record(s)]
            /\ handles' = Gain(t, p)
            /\ UNCHANGED <<frees, pc, aborted>>
    /\ UNCHANGED <<raw, this>>
    \* the bound of the model on the shares in existence
    /\ TotalShares < MaxShares

(***************************************************************************)
(* impl Clone for ArcStr.                                                  *)
(***************************************************************************)
\* a faulty variant: clone leaves the count as it is
fetch_add_value_none(n) == n
\* fetch_add(1, Relaxed): the value stored, wrapping
fetch_add_value(n) == (n + 1) % USIZE_MOD
\* a faulty variant: no guard
clone_overflows_never(n) == FALSE
\* a faulty variant: the guard trips at isize::MAX already
clone_overflows_at_max(n) == n >= ISIZE_MAX
\* the overflow guard: n > (isize::MAX as usize)
clone_overflows(n) == n > ISIZE_MAX
\* a faulty variant: clone returns a Handle to the empty record
clone_result_empty(p) == EMPTY
\* the Handle clone returns: Self(self.0)
clone_result(p) == p

\* clone, up to the branch on the discriminant: a static record is
\* duplicated at once, with no access to the count
CloneBegin(t, p) ==
    /\ Idle(t)
    /\ handles[t][p] > 0
    /\ TotalShares < MaxShares
    /\ IF LenFlags_is_static(get_len_flags(p))
       THEN /\ handles' = Gain(t, clone_result(p))
            /\ UNCHANGED <<pc, this>>
       ELSE /\ pc' = [pc EXCEPT ![t] = "clone_add"]
            /\ this' = [this EXCEPT ![t] = p]
            /\ UNCHANGED handles
    /\ UNCHANGED <<mem, alloc, layout, frees, raw, aborted>>

\* a faulty variant: the increment waits for the drops of the record that
\* are under way
CloneFetchAdd_waits(t) ==
    /\ ~aborted
    /\ pc[t] = "clone_add"
    /\ Dropping(this[t]) = {}
    /\ LET p == this[t]
           n == mem[p].strong
       IN  /\ mem' = store_strong(p, fetch_add_value(n))
           /\ IF clone_overflows(n)
              THEN /\ aborted' = TRUE
                   /\ UNCHANGED <<handles, pc, this>>
              ELSE /\ handles' = Gain(t, clone_result(p))
                   /\ pc' = [pc EXCEPT ![t] = "idle"]
                   /\ this' = [this EXCEPT ![t] = EMPTY]
                   /\ UNCHANGED aborted
    /\ UNCHANGED <<alloc, layout, frees, raw>>
\* clone of a dynamic record: the increment, the overflow guard, the return
CloneFetchAdd(t) ==
    /\ ~aborted
    /\ pc[t] = "clone_add"
    /\ LET p == this[t]
           n == mem[p].strong
       IN  /\ mem' = store_strong(p, fetch_add_value(n))
           /\ IF clone_overflows(n)
              THEN /\ aborted' = TRUE
                   /\ UNCHANGED <<handles, pc, this>>
              ELSE /\ handles' = Gain(t, clone_result(p))
                   /\ pc' = [pc EXCEPT ![t] = "idle"]
                   /\ this' = [this EXCEPT ![t] = EMPTY]
                   /\ UNCHANGED aborted
    /\ UNCHANGED <<alloc, layout, frees, raw>>

(***************************************************************************)
(* impl Drop for ArcStr.                                                   *)
(***************************************************************************)
\* a faulty variant: drop takes two off the count
fetch_sub_value_two(n) == (n + USIZE_MOD - 2) % USIZE_MOD
\* fetch_sub(1, Release): the value stored, wrapping
fetch_sub_value(n) == (n + USIZE_MOD - 1) % USIZE_MOD
\* a faulty variant: the drop that sees 2 destroys the record as well
is_last_share_early(n) == n <= 2
\* a faulty variant: the test is on the value left in the count, which
\* fetch_sub does not return
is_last_share_never(n) == n = 0
\* the test on the value fetch_sub returned: == 1
is_last_share(n) == n = 1
\* a faulty variant: the size handed to dealloc leaves the header out
destroy_layout_payload_only(lf) == <<LenFlags_len(lf), ALIGN>>
\* ThinInner::destroy_cold: the Layout rebuilt from the header
destroy_layout(lf) == <<LenFlags_len(lf) + OFFSET_DATA, ALIGN>>

\* drop, up to the branch on the discriminant: the Handle is gone; a static
\* record is left alone
DropBegin(t, p) ==
    /\ Idle(t)
    /\ handles[t][p] > 0
    /\ handles' = Lose(t, p)
    /\ IF LenFlags_is_static(get_len_flags(p))
       THEN UNCHANGED <<pc, this>>
       ELSE /\ pc' = [pc EXCEPT ![t] = "drop_sub"]
            /\ this' = [this EXCEPT ![t] = p]
    /\ UNCHANGED <<mem, alloc, layout, frees, raw, aborted>>

\* drop of a dynamic record: the decrement
DropFetchSub(t) ==
    /\ ~aborted
    /\ pc[t] = "drop_sub"
    /\ LET p == this[t]
           n == mem[p].strong
       IN  /\ mem' = store_strong(p, fetch_sub_value(n))
           /\ IF is_last_share(n)
              THEN /\ pc' = [pc EXCEPT ![t] = "drop_acq"]
                   /\ UNCHANGED this
              ELSE /\ pc' = [pc EXCEPT ![t] = "idle"]
                   /\ this' = [this EXCEPT ![t] = EMPTY]
    /\ UNCHANGED <<alloc, layout, frees, handles, raw, aborted>>

\* drop of the last share: the Acquire load of the count
DropAcquire(t) ==
    /\ ~aborted
    /\ pc[t] = "drop_acq"
    /\ pc' = [pc EXCEPT ![t] = "destroy"]
    /\ UNCHANGED <<mem, alloc, layout, frees, handles, raw, this, aborted>>

\* ThinInner::destroy_cold: the header is read again for the length, and
\* the block goes back to the allocator
DestroyCold(t) ==
    /\ ~aborted
    /\ pc[t] = "destroy"
    /\ alloc' = [alloc EXCEPT ![this[t]] = "freed"]
    /\ frees' = [frees EXCEPT ![this[t]] = @ + 1]
    /\ pc' = [pc EXCEPT ![t] = "idle"]
    /\ this' = [this EXCEPT ![t] = EMPTY]
    /\ UNCHANGED <<mem, layout, handles, raw, aborted>>

(***************************************************************************)
(* Raw pointers, and Handles moving between threads.                       *)
(***************************************************************************)
\* a faulty variant: the Handle is dropped instead of forgotten
forget_drops(p, m) ==
    IF LenFlags_is_static(m[p].len_flags) THEN m
    ELSE [m EXCEPT ![p].strong = fetch_sub_value(@)]
\* core::mem::forget(this): no drop runs, memory is left as it is
forget(p, m) == m
\* a faulty variant: from_raw hands out a Handle to the empty record
from_raw_result_empty(ptr) == EMPTY
\* ArcStr::from_raw: Self(ptr.cast())
from_raw_result(ptr) == ptr

\* ArcStr::into_raw: the Handle is forgotten, its pointer exported
IntoRaw(t, p) ==
    /\ Idle(t)
    /\ handles[t][p] > 0
    /\ handles' = Lose(t, p)
    /\ mem' = forget(p, mem)
    /\ raw' = [raw EXCEPT ![p] = @ + 1]
    /\ UNCHANGED <<alloc, layout, frees, pc, this, aborted>>

\* ArcStr::from_raw, on a pointer into_raw exported, imported once
FromRaw(t, p) ==
    /\ Idle(t)
    /\ raw[p] > 0
    /\ raw' = [raw EXCEPT ![p] = @ - 1]
    /\ handles' = Gain(t, from_raw_result(p))
    /\ UNCHANGED <<mem, alloc, layout, frees, pc, this, aborted>>

\* unsafe impl Send for ArcStr: a Handle is moved to another thread
Send(t, u, p) ==
    /\ Idle(t)
    /\ u # t
    /\ pc[u] = "idle"
    /\ handles[t][p] > 0
    /\ handles' = [handles EXCEPT ![t][p] = @ - 1, ![u][p] = @ + 1]
    /\ UNCHANGED <<mem, alloc, layout, frees, raw, pc, this, aborted>>

(***************************************************************************)
(* The read-only operations on a Handle holding pointer p.  Each yields    *)
(* its result and the accesses it makes.  They change nothing, so they     *)
(* are no steps of the state machine: they are evaluated in every          *)
(* reachable state, for every Handle a thread could call them on.          *)
(***************************************************************************)
\* ArcStr::len: get_len_flags(p).len()
len(p) == Res(LenFlags_len(get_len_flags(p)), {Rd(p, "len_flags")})
\* ArcStr::as_bytes (and as_str, deref): len bytes from the payload offset
as_bytes(p) ==
    Res([i \in 1 .. LenFlags_len(get_len_flags(p)) |->
            IF i <= Len(mem[p].data) THEN mem[p].data[i] ELSE OutOfBounds],
        {Rd(p, "len_flags"), Rd(p, "data")})
\* a faulty variant: the count is loaded without a look at the discriminant
strong_count_unchecked(p) ==
    Res(Some(mem[p].strong), {Acc(p, "strong", "load", "SeqCst")})
\* ArcStr::strong_count
strong_count(p) ==
    IF LenFlags_is_static(get_len_flags(p))
    THEN Res(None, {Rd(p, "len_flags")})
    ELSE Res(Some(mem[p].strong),
             {Rd(p, "len_flags"), Acc(p, "strong", "load", "SeqCst")})
\* a faulty variant: a record is taken for static when its count reads 0
is_static_by_count(p) ==
    Res(mem[p].strong = 0, {Acc(p, "strong", "load", "SeqCst")})
\* ArcStr::is_static
is_static(p) ==
    Res(LenFlags_is_static(get_len_flags(p)), {Rd(p, "len_flags")})
\* a faulty variant: the content is handed out for a dynamic record too
as_static_any(p) ==
    Res(Some(as_bytes(p).ret), {Rd(p, "len_flags")} \cup as_bytes(p).acc)
\* ArcStr::as_static
as_static(p) ==
    IF LenFlags_is_static(get_len_flags(p))
    THEN Res(Some(as_bytes(p).ret), {Rd(p, "len_flags")} \cup as_bytes(p).acc)
    ELSE Res(None, {Rd(p, "len_flags")})
\* a faulty variant: Handles of the same content are taken for the same
ptr_eq_by_content(p, q) == Res(mem[p].data = mem[q].data, {})
\* ArcStr::ptr_eq
ptr_eq(p, q) == Res(p = q, {})
\* PartialEq::eq: ptr_eq(self, o) || self.as_str() == o.as_str()
eq(p, q) ==
    IF ptr_eq(p, q).ret
    THEN Res(TRUE, {})
    ELSE Res(as_bytes(p).ret = as_bytes(q).ret,
             as_bytes(p).acc \cup as_bytes(q).acc)

(***************************************************************************)
(* The accesses of the steps of clone and drop.                            *)
(***************************************************************************)
\* clone: get_len_flags(this).is_static()
clone_begin_acc(p) == {Rd(p, "len_flags")}
\* clone: (*this).strong.fetch_add(1, Ordering::Relaxed)
clone_add_acc(p) == {Acc(p, "strong", "fetch_add", "Relaxed")}
\* drop: get_len_flags(this).is_static()
drop_begin_acc(p) == {Rd(p, "len_flags")}
\* a faulty variant: the decrement is Relaxed, and publishes nothing
drop_sub_acc_relaxed(p) == {Acc(p, "strong", "fetch_sub", "Relaxed")}
\* drop: (*this).strong.fetch_sub(1, Ordering::Release)
drop_sub_acc(p) == {Acc(p, "strong", "fetch_sub", "Release")}
\* drop: (*this).strong.load(Ordering::Acquire)
drop_acq_acc(p) == {Acc(p, "strong", "load", "Acquire")}
\* destroy_cold: get_len_flags(p), then dealloc(p, layout)
destroy_acc(p) == {Rd(p, "len_flags"), Acc(p, "block", "dealloc", "plain")}

Op(op, acc) == [op |-> op, acc |-> acc]
\* the operations thread t can call next on the Handles it owns
Calls(t) ==
    LET held == {p \in Addrs : handles[t][p] > 0}
        pairs == {x \in held \X held : x[1] # x[2] \/ handles[t][x[1]] > 1}
    IN  UNION {{Op("len", len(p).acc),
                Op("as_bytes", as_bytes(p).acc),
                Op("strong_count", strong_count(p).acc),
                Op("is_static", is_static(p).acc),
                Op("as_static", as_static(p).acc),
                Op("clone", clone_begin_acc(p)),
                Op("drop", drop_begin_acc(p))} : p \in held}
        \cup {Op("ptr_eq", ptr_eq(x[1], x[2]).acc) : x \in pairs}
        \cup {Op("eq", eq(x[1], x[2]).acc) : x \in pairs}
\* the step thread t takes next inside clone or drop
Pending(t) ==
    CASE pc[t] = "clone_add" -> Op("clone", clone_add_acc(this[t]))
      [] pc[t] = "drop_sub"  -> Op("drop", drop_sub_acc(this[t]))
      [] pc[t] = "drop_acq"  -> Op("drop", drop_acq_acc(this[t]))
      [] pc[t] = "destroy"   -> Op("destroy_cold", destroy_acc(this[t]))
\* every operation step some thread can take next, with its accesses
AllOps ==
    IF aborted THEN {}
    ELSE UNION {CASE pc[t] = "idle" -> Calls(t)
                  [] pc[t] = "panicked" -> {}
                  [] OTHER -> {Pending(t)} : t \in Threads}
AllAcc == UNION {o.acc : o \in AllOps}

Next ==
    \E t \in Threads :
        \/ New(t)
        \/ \E s \in Inputs : From_str(t, s)
        \/ \E p \in Addrs : CloneBegin(t, p)
        \/ CloneFetchAdd(t)
        \/ \E p \in Addrs : DropBegin(t, p)
        \/ DropFetchSub(t)
        \/ DropAcquire(t)
        \/ DestroyCold(t)
        \/ \E p \in Addrs : IntoRaw(t, p)
        \/ \E p \in Addrs : FromRaw(t, p)
        \/ \E u \in Threads, p \in Addrs : Send(t, u, p)

Spec == Init /\ [][Next]_vars

\* a thread inside clone or drop takes its next step
Continue(t) ==
    CloneFetchAdd(t) \/ DropFetchSub(t) \/ DropAcquire(t) \/ DestroyCold(t)
\* clone and drop are straight-line code: a scheduled thread finishes them
FairSpec == Spec /\ \A t \in Threads : WF_vars(Continue(t))

\* some clone or drop of p is under way
MidFlight(p) == \E t \in Threads : pc[t] # "idle" /\ this[t] = p
\* thread t takes a step out of pc value at
Leaves(t, at) == pc[t] = at /\ pc'[t] # at

(***************************************************************************)
(* The reference-count protocol.                                           *)
(***************************************************************************)

\* C1: a dynamic record is deallocated at most once: over every
\* interleaving of clones and drops, at most one drop of a record sees
\* fetch_sub return 1 (it is then on its way to destroy_cold, or has called
\* dealloc), and dealloc is never called twice on a block.
C1_DeallocatedAtMostOnce ==
    \A p \in Heap :
        /\ frees[p] + Cardinality(Destroying(p)) <= 1
        /\ (alloc[p] = "freed") <=> (frees[p] = 1)
        /\ alloc[p] # "live" => Destroying(p) = {}
\* a record that threads shared has been deallocated, once
C1_Witness ==
    \E p \in Heap : alloc[p] = "freed" /\ frees[p] = 1 /\ mem[p].strong = 0

\* C2: no use after free: every access a thread can make next (the read of
\* the header, the count or the payload by any operation on a Handle, the
\* fetch_add of a clone, the fetch_sub and the load of a drop, the read and
\* the dealloc of destroy_cold) is to a block that is allocated; and a
\* drop whose fetch_sub returned something other than 1 returns at once.
C2_NoUseAfterFree ==
    /\ [](\A x \in AllAcc : x.st \in {"live", "static"})
    /\ [][\A t \in Threads :
            (Leaves(t, "drop_sub") /\ mem[this[t]].strong # 1)
                => pc'[t] = "idle"]_vars
\* a record has been freed while threads go on working with Handles
C2_Witness ==
    \E p \in Heap : alloc[p] = "freed" /\ AllOps # {}

\* C3: the count of a live dynamic record is at least 1 while a Handle or
\* an exported raw pointer references it; with no clone or drop of the
\* record under way, strong_count reads exactly the number of live shares
\* (1 after construction, 2 after a clone, 1 after a drop); and a record is
\* freed only when no share is left.
C3_CountIsShares ==
    \A p \in Heap :
        /\ (alloc[p] = "live" /\ Shares(p) >= 1)
              => mem[p].strong >= 1 /\ strong_count(p).ret # None
        /\ (alloc[p] = "live" /\ ~MidFlight(p))
              => strong_count(p).ret = Some(Shares(p)) /\ Shares(p) >= 1
        /\ alloc[p] = "freed" => Shares(p) = 0
        /\ alloc[p] = "unalloc" => Shares(p) = 0
\* one thread has constructed and cloned: strong_count reads 2
C3_Witness ==
    \E p \in Heap, t \in Threads :
        /\ alloc[p] = "live" /\ ~MidFlight(p)
        /\ handles[t][p] = 2 /\ Shares(p) = 2
        /\ strong_count(p).ret = Some(2)

\* C4: a clone's fetch_add takes the count from n to n + 1 in one step and
\* the clone returns a Handle to the same record (for n not above the
\* overflow guard); construction starts the count at 1; and whatever the
\* interleaving, every increment is counted: the count is the number of
\* shares plus the drops that have not decremented yet, so two concurrent
\* clones from n leave n + 2.
C4_CloneIncrements ==
    /\ [][/\ \A t \in Threads :
               (Leaves(t, "clone_add") /\ mem[this[t]].strong <= ISIZE_MAX)
                  => /\ mem' = [mem EXCEPT ![this[t]].strong = @ + 1]
                     /\ handles' = [handles EXCEPT ![t][this[t]] = @ + 1]
                     /\ pc'[t] = "idle"
          /\ \A p \in Heap :
               (alloc[p] = "unalloc" /\ alloc'[p] = "live")
                  => mem'[p].strong = 1 /\ Shares(p)' = 1]_vars
    /\ [](\A p \in Heap :
            alloc[p] = "live"
               => mem[p].strong = Shares(p) + Cardinality(Dropping(p)))
\* two threads are inside clone of the same record at once
C4_Witness ==
    \E p \in Heap : Cardinality(Cloning(p)) = 2 /\ mem[p].strong = 2

\* C5: a drop that finds the count at n >= 2 changes the record's count to
\* n - 1 and nothing else: no header, no payload, no other record, no other
\* Handle, no other thread; the record is not deallocated and the drop is
\* over.  Before that, the drop took only the dropped Handle away.
C5_DropFrame ==
    [][\A t \in Threads :
          /\ (Leaves(t, "drop_sub") /\ mem[this[t]].strong >= 2)
                => /\ mem' = [mem EXCEPT ![this[t]].strong = @ - 1]
                   /\ UNCHANGED <<alloc, frees, layout, handles, raw, aborted>>
                   /\ pc' = [pc EXCEPT ![t] = "idle"]
          /\ (pc[t] = "idle" /\ pc'[t] = "drop_sub")
                => /\ handles' = [handles EXCEPT ![t][this'[t]] = @ - 1]
                   /\ UNCHANGED <<mem, alloc, frees, layout, raw, aborted>>
      ]_vars
\* a drop is about to decrement a count of 2 or more
C5_Witness ==
    \E t \in Threads :
        /\ pc[t] = "drop_sub" /\ mem[this[t]].strong >= 2
        /\ \E u \in Threads : u # t /\ handles[u][this[t]] > 0

\* C6: under fair scheduling, once every share of a dynamic record has
\* been dropped (no Handle and no exported pointer is left, the drops are
\* under way), the record is eventually deallocated, unless the process
\* aborts; and a record is never deallocated while a share is live.
C6_EventuallyFreed ==
    /\ \A p \in Heap :
          (alloc[p] = "live" /\ Shares(p) = 0) ~> (alloc[p] = "freed" \/ aborted)
    /\ [](\A p \in Heap : alloc[p] = "freed" => Shares(p) = 0)
\* the last two shares of a record are being dropped by two threads
C6_Witness ==
    \E p \in Heap :
        alloc[p] = "live" /\ Shares(p) = 0 /\ Cardinality(Dropping(p)) = 2

(***************************************************************************)
(* Static records.                                                         *)
(***************************************************************************)

\* C7: no operation reads or writes the count field of a static record or
\* deallocates it: every access to a static record is a plain read of the
\* header or the payload, and the record stays as it was embedded.
C7_StaticCountUntouched ==
    /\ \A x \in AllAcc :
          alloc[x.addr] = "static"
             => x.field \in {"len_flags", "data"} /\ x.kind = "read"
    /\ \A t \in Threads : pc[t] # "idle" => alloc[this[t]] # "static"
    /\ alloc[EMPTY] = "static" /\ frees[EMPTY] = 0 /\ mem[EMPTY] = EMPTY_INNER
\* a thread holds two Handles to a static record (one is a clone) and can
\* call every operation on them
C7_Witness ==
    \E t \in Threads :
        /\ handles[t][EMPTY] >= 2 /\ pc[t] = "idle" /\ ~aborted
        /\ \E o \in Calls(t) : o.op = "eq"

\* C8: static-ness is fixed at construction: over every step, is_static of
\* a record does not change and strong_count stays None or stays Some; a
\* static record reports strong_count None, keeps its content, and its
\* clone is static.
C8_StaticnessFixed ==
    [][\A p \in Addrs :
          (alloc[p] \in {"live", "static"} /\ alloc'[p] \in {"live", "static"})
             => /\ is_static(p).ret' = is_static(p).ret
                /\ (strong_count(p).ret = None)' = (strong_count(p).ret = None)
                /\ is_static(p).ret
                      => /\ strong_count(p).ret = None
                         /\ as_static(p).ret # None
                         /\ as_bytes(p).ret' = as_bytes(p).ret
                         /\ is_static(clone_result(p)).ret
                /\ ~is_static(p).ret
                      => strong_count(p).ret # None /\ as_static(p).ret = None
      ]_vars
\* a thread holds a Handle to a static and a Handle to a dynamic record
C8_Witness ==
    \E t \in Threads, p \in Heap :
        /\ handles[t][EMPTY] > 0 /\ handles[t][p] > 0
        /\ strong_count(EMPTY).ret = None /\ strong_count(p).ret = Some(2)

\* C9 as stated: the count field is touched by nothing but the fetch_add
\* of clone and the fetch_sub of drop.
C9_OnlyTwoTransitions ==
    \A o \in AllOps : \A x \in o.acc :
        x.field = "strong"
           => \/ o.op = "clone" /\ x.kind = "fetch_add"
              \/ o.op = "drop" /\ x.kind = "fetch_sub"
\* C9, amended: the count field of a constructed record is written by
\* nothing but the fetch_add of clone and the fetch_sub of drop; besides
\* them it is only loaded, by strong_count and by the drop that saw 1.
C9_OnlyTwoWriters ==
    \A o \in AllOps : \A x \in o.acc :
        x.field = "strong"
           => \/ o.op = "clone" /\ x.kind = "fetch_add"
              \/ o.op = "drop" /\ x.kind = "fetch_sub"
              \/ o.op = "drop" /\ x.kind = "load" /\ x.ord = "Acquire"
              \/ o.op = "strong_count" /\ x.kind = "load"
\* strong_count can be called on a dynamic record while a clone of it is
\* about to increment the count
C9_Witness ==
    /\ \E o \in AllOps : o.op = "strong_count" /\ \E x \in o.acc : x.field = "strong"
    /\ \E o \in AllOps : o.op = "clone" /\ \E x \in o.acc : x.field = "strong"

\* C10: once constructed, a record's len_flags and payload never change:
\* over every step, a record that is allocated before and after differs at
\* most in the count, and only if it is dynamic.
C10_RecordImmutable ==
    [][\A p \in Addrs :
          (alloc[p] \in {"live", "static"} /\ alloc'[p] \in {"live", "static"})
             => /\ alloc'[p] = alloc[p]
                /\ mem'[p].len_flags = mem[p].len_flags
                /\ mem'[p].data = mem[p].data
                /\ layout'[p] = layout[p]
                /\ alloc[p] = "static" => mem'[p] = mem[p]
      ]_vars
\* a record's count has changed since construction; header and payload
\* are as constructed
C10_Witness ==
    \E p \in Heap :
        /\ alloc[p] = "live" /\ mem[p].strong = 3
        /\ mem[p].len_flags = allocate_record(mem[p].data).len_flags
        /\ as_bytes(p).ret = <<97, 98>>

(***************************************************************************)
(* Construction from text-like inputs and the comparisons of Handles: a    *)
(* program of one thread that constructs Handles from contents in every    *)
(* representation ArcStr converts from, clones and drops them, and         *)
(* compares every two of them.                                             *)
(***************************************************************************)
\* the thread that runs the program
Main == CHOOSE t \in Threads : \A u \in Threads : t <= u
\* the blocks of its heap
ValueHeap == 1 .. NumValues
\* the address of a record embedded by literal_arcstr!(b"ab")
LITERAL == EMPTY - 1
ValueAddrs == {LITERAL, EMPTY} \cup ValueHeap
\* the record behind LITERAL: the header holds the length and the static
\* discriminant, the count field an inert 0
LITERAL_INNER ==
    [len_flags |-> LenFlags_from_len_static_raw(2, TRUE),
     strong |-> 0,
     data |-> <<97, 98>>]
\* the contents Handles are constructed from: "", "a", "ab", "b"
Contents == {<< >>, <<97>>, <<97, 98>>, <<98>>}
\* a content whose length plus the header is more than isize::MAX
Oversize ==
    LET n == ISIZE_MAX - OFFSET_DATA + 1 IN SubSeq([i \in 1 .. n |-> 97], 1, n)
\* the types ArcStr is constructed from: From<T> for &str, String,
\* &mut str, Box<str>, Rc<str>, Arc<str>, Cow<str>, &String, and FromStr
Reps == {"&str", "String", "&mut str", "Box<str>", "Rc<str>", "Arc<str>",
         "Cow<str>", "&String", "FromStr"}
\* the values ArcStr is constructed from
Values == [rep : Reps, str : Contents \cup {Oversize}]
\* the values of empty content
EmptyValues == {v \in Values : Len(v.str) = 0}
\* the &str each conversion passes on to From<&str>: v.as_str(), &*s,
\* &s[..], or s itself
borrowed(v) == v.str

ValueInit ==
    /\ mem = [a \in ValueAddrs |->
                 CASE a = EMPTY -> EMPTY_INNER
                   [] a = LITERAL -> LITERAL_INNER
                   [] OTHER -> Unallocated]
    /\ alloc = [a \in ValueAddrs |->
                   IF a \in ValueHeap THEN "unalloc" ELSE "static"]
    /\ layout = [a \in ValueAddrs |-> <<0, 0>>]
    /\ frees = [a \in ValueAddrs |-> 0]
    /\ handles = [t \in Threads |-> [a \in ValueAddrs |-> 0]]
    /\ raw = [a \in ValueAddrs |-> 0]
    /\ pc = [t \in Threads |-> "idle"]
    /\ this = [t \in Threads |-> EMPTY]
    /\ aborted = FALSE

\* From<String>, From<&mut str>, From<Box<str>>, From<Rc<str>>,
\* From<Arc<str>>, From<Cow<str>>, From<&String>, FromStr::from_str: each
\* borrows the &str and calls From<&str>
From(t, v) == From_str(t, borrowed(v))
\* Default::default: Self::new()
Default(t) == New(t)
\* ArcStr::new_static, on the record literal_arcstr! embedded
New_static(t) ==
    /\ Idle(t)
    /\ TotalShares < MaxShares
    /\ handles' = Gain(t, LITERAL)
    /\ UNCHANGED <<mem, alloc, layout, frees, raw, pc, this, aborted>>

\* ArcStr::as_str (Deref): from_utf8_unchecked(self.as_bytes()), the same
\* bytes taken for text without a check
as_str(p) == Res(as_bytes(p).ret, as_bytes(p).acc)

\* impl From<&ArcStr> for Cow<str>: Cow::Borrowed(s), s dereferenced
cow_from_ref(p) == Res(<<"Borrowed", as_str(p).ret>>, as_str(p).acc)
\* a faulty variant: the content is copied whatever the record
cow_from_always_owned(p) ==
    Res(<<"Owned", as_str(p).ret>>, as_str(p).acc \cup drop_begin_acc(p))
\* impl From<ArcStr> for Cow<str>: the static content borrowed, or
\* s.to_string(); then s goes out of scope, and its drop reads the
\* discriminant
cow_from(p) ==
    IF as_static(p).ret # None
    THEN Res(<<"Borrowed", as_static(p).ret[1]>>,
             as_static(p).acc \cup drop_begin_acc(p))
    ELSE Res(<<"Owned", as_str(p).ret>>,
             as_static(p).acc \cup as_str(p).acc \cup drop_begin_acc(p))
\* Cow::from(s) with s a Handle thread t owns: the Cow is made, and the
\* drop of s begins
IntoCow(t, p) ==
    /\ cow_from(p).ret[1] \in {"Borrowed", "Owned"}
    /\ DropBegin(t, p)

ValueNext ==
    \/ Default(Main)
    \/ \E v \in Values : From(Main, v)
    \/ New_static(Main)
    \/ \E p \in ValueAddrs : CloneBegin(Main, p)
    \/ CloneFetchAdd(Main)
    \/ \E p \in ValueAddrs : DropBegin(Main, p)
    \/ DropFetchSub(Main)
    \/ DropAcquire(Main)
    \/ DestroyCold(Main)
    \/ \E p \in ValueAddrs : IntoCow(Main, p)

ValueSpec == ValueInit /\ [][ValueNext]_vars

\* the records that are allocated: embedded or live on the heap
Allocated == {p \in DOMAIN mem : alloc[p] \in {"live", "static"}}

(***************************************************************************)
(* Construction.                                                           *)
(***************************************************************************)

\* C11: every construction from empty content, from whichever type
\* (ArcStr::new, Default, From<&str> and every other From, FromStr), hands
\* out a Handle to the one canonical empty record EMPTY, which is static
\* and of length 0, so that the results are all ptr_eq; the step allocates
\* nothing and writes no record.  Hence no dynamic record is ever empty.
C11_EmptyIsCanonical ==
    /\ [][\A v \in EmptyValues :
            (handles' # handles /\ (From(Main, v) \/ Default(Main) \/ New(Main)))
               => /\ handles' = [handles EXCEPT ![Main][EMPTY] = @ + 1]
                  /\ UNCHANGED <<mem, alloc, layout, frees, aborted>>
                  /\ is_static(EMPTY).ret /\ len(EMPTY).ret = 0
                  /\ ptr_eq(EMPTY, EMPTY).ret
         ]_vars
    /\ [](\A p \in DOMAIN mem :
             /\ alloc[p] = "live" => len(p).ret > 0
             /\ (handles[Main][p] > 0 /\ len(p).ret = 0) => ptr_eq(p, EMPTY).ret)
\* three Handles were constructed from empty content while no block of
\* the heap is left, so that any allocation would have aborted the process
C11_Witness ==
    /\ handles[Main][EMPTY] = 3 /\ ~aborted
    /\ \A p \in ValueHeap : alloc[p] # "unalloc"

\* C12: round trip: the Handle constructed from content C, empty or not,
\* in any representation, has len() the number of bytes of C and
\* as_bytes() and as_str() the bytes of C; and over every later step
\* (clones and drops of Handles to the same or other records) len, as_bytes
\* and as_str of a record stay what they were.
C12_RoundTrip ==
    /\ [][\A v \in Values :
            (handles' # handles /\ From(Main, v))
               => \E p \in DOMAIN mem :
                     /\ handles' = [handles EXCEPT ![Main][p] = @ + 1]
                     /\ len(p).ret' = Len(v.str)
                     /\ as_bytes(p).ret' = v.str
                     /\ as_str(p).ret' = v.str
         ]_vars
    /\ [][\A p \in Allocated :
            p \in Allocated'
               => /\ len(p).ret' = len(p).ret
                  /\ as_bytes(p).ret' = as_bytes(p).ret
                  /\ as_str(p).ret' = as_str(p).ret
         ]_vars
\* Handles were constructed from "a" and from "ab"; the second has been
\* cloned and a Handle to it dropped since
C12_Witness ==
    \E p, q \in ValueHeap :
        /\ as_bytes(p).ret = <<97>> /\ len(p).ret = 1
        /\ as_bytes(q).ret = <<97, 98>> /\ len(q).ret = 2
        /\ handles[Main][p] = 1 /\ handles[Main][q] = 1
        /\ mem[q].strong = 2 /\ pc[Main] = "drop_sub" /\ this[Main] = q

(***************************************************************************)
(* The overflow guard of clone.  The program has leaked shares of a        *)
(* record (Handles cloned and given to into_raw or mem::forget, the        *)
(* pointers thrown away) until its count is close to isize::MAX; one       *)
(* Handle is left, and the threads go on cloning, dropping and moving it.  *)
(***************************************************************************)
\* the record with the leaked shares
Leaky == CHOOSE p \in Heap : \A q \in Heap : p <= q
\* how many shares have been leaked
LeakedShares == {ISIZE_MAX - 2, ISIZE_MAX - 1}

OverflowInit ==
    \E n \in LeakedShares :
        /\ mem = [a \in Addrs |->
                     CASE a = EMPTY -> EMPTY_INNER
                       [] a = Leaky ->
                            [allocate_record(<<97, 98>>) EXCEPT !.strong = n + 1]
                       [] OTHER -> Unallocated]
        /\ alloc = [a \in Addrs |->
                       CASE a = EMPTY -> "static"
                         [] a = Leaky -> "live"
                         [] OTHER -> "unalloc"]
        /\ layout = [a \in Addrs |->
                        IF a = Leaky THEN allocate_layout(2) ELSE <<0, 0>>]
        /\ frees = [a \in Addrs |-> 0]
        /\ handles = [t \in Threads |-> [a \in Addrs |->
                         IF t = Main /\ a = Leaky THEN 1 ELSE 0]]
        /\ raw = [a \in Addrs |-> 0]
        /\ pc = [t \in Threads |-> "idle"]
        /\ this = [t \in Threads |-> EMPTY]
        /\ aborted = FALSE

OverflowNext ==
    \E t \in Threads :
        \/ CloneBegin(t, Leaky)
        \/ CloneFetchAdd(t)
        \/ DropBegin(t, Leaky)
        \/ DropFetchSub(t)
        \/ IntoRaw(t, Leaky)
        \/ FromRaw(t, Leaky)
        \/ \E u \in Threads : Send(t, u, Leaky)

OverflowSpec == OverflowInit /\ [][OverflowNext]_vars

\* C13 as stated: in no state of a running process is the count of a
\* record above isize::MAX.
C13_NeverAboveIsizeMax ==
    \A p \in Heap : (alloc[p] = "live" /\ ~aborted) => mem[p].strong <= ISIZE_MAX
\* C13, amended: the guard is on the value fetch_add returns, the count
\* before the increment: a clone that finds the count above isize::MAX
\* aborts the process, a clone that finds it at isize::MAX or below
\* succeeds and leaves one more; the count never wraps (every fetch_add
\* leaves a larger count), and in a running process it is at most
\* isize::MAX + 1.
C13_OverflowGuard ==
    /\ [][\A t \in Threads :
            CloneFetchAdd(t)
               => LET p == this[t]
                      n == mem[p].strong
                  IN  /\ mem'[p].strong = n + 1
                      /\ aborted' <=> (n > ISIZE_MAX)
                      /\ ~aborted' => handles'[t][p] = handles[t][p] + 1
         ]_vars
    /\ [](\A p \in Heap :
             alloc[p] = "live"
                => /\ ~aborted => mem[p].strong <= ISIZE_MAX + 1
                   /\ mem[p].strong >= Shares(p)
                   /\ mem[p].strong < USIZE_MOD)
\* a clone found the count at isize::MAX + 1 and aborted the process
C13_Witness ==
    aborted /\ mem[Leaky].strong = ISIZE_MAX + 2

\* the values whose length plus the header is more than isize::MAX, the
\* largest size of an object
OversizeValues == {v \in Values : Len(v.str) + OFFSET_DATA > ISIZE_MAX}

C15_RawRoundTrip ==
    /\ [][\A t \in Threads, p \in Addrs :
            /\ IntoRaw(t, p)
                  => /\ mem' = mem /\ alloc' = alloc
                     /\ handles' = [handles EXCEPT ![t][p] = @ - 1]
                     /\ raw' = [raw EXCEPT ![p] = @ + 1]
                     /\ strong_count(p).ret' = strong_count(p).ret
            /\ FromRaw(t, p)
                  => /\ mem' = mem /\ alloc' = alloc
                     /\ raw' = [raw EXCEPT ![p] = @ - 1]
                     /\ handles' = [handles EXCEPT ![t][p] = @ + 1]
                     /\ strong_count(p).ret' = strong_count(p).ret
                     /\ as_bytes(p).ret' = as_bytes(p).ret
         ]_vars
    /\ [](\A p \in Heap :
             /\ alloc[p] = "live"
                   => mem[p].strong = HandlesTo(p) + raw[p] + Cardinality(Dropping(p))
             /\ raw[p] >= 1
                   => /\ alloc[p] = "live"
                      /\ as_bytes(p).ret = mem[p].data
                      /\ \A x \in as_bytes(p).acc : x.st = "live")
\* an exported pointer is the only share left of a record: every Handle
\* has been dropped, the count is 1
C15_Witness ==
    \E p \in Heap :
        /\ raw[p] = 1 /\ HandlesTo(p) = 0 /\ ~MidFlight(p)
        /\ alloc[p] = "live" /\ strong_count(p).ret = Some(1)

\* C16: a pointer exported by into_raw and not imported by from_raw is a
\* share leaked for good: only from_raw takes an exported pointer away,
\* and as long as one is out the count of its record is at least 1 (at
\* least the number of pointers out) and the record is not deallocated,
\* whatever Handles are cloned and dropped.
C16_LeakedShareKeepsRecord ==
    /\ [](\A p \in Heap :
             raw[p] >= 1
                => alloc[p] = "live" /\ frees[p] = 0 /\ mem[p].strong >= raw[p])
    /\ [][\A p \in Heap :
            /\ raw'[p] < raw[p] => \E t \in Threads : FromRaw(t, p)
            /\ (raw[p] >= 1 /\ raw'[p] >= raw[p])
                  => alloc'[p] = "live" /\ mem'[p].strong >= 1
         ]_vars
\* the last Handle of a record is being dropped while a pointer to it is
\* out: the drop will find 2
C16_Witness ==
    \E p \in Heap :
        /\ raw[p] = 1 /\ HandlesTo(p) = 0
        /\ Dropping(p) # {} /\ mem[p].strong = 2

(***************************************************************************)
(* Comparisons and hashing.  They read the two Handles and change          *)
(* nothing; they are evaluated on every two Handles the program holds.     *)
(***************************************************************************)
\* the records the program holds Handles to
Held == {p \in DOMAIN mem : handles[Main][p] > 0}
\* core::cmp::Ordering
Less == "Less"
Equal == "Equal"
Greater == "Greater"
\* Ord::cmp for integers (bytes, lengths)
int_cmp(a, b) == IF a < b THEN Less ELSE IF a = b THEN Equal ELSE Greater
\* PartialEq::eq for str: the same bytes
str_eq(x, y) == Len(x) = Len(y) /\ \A i \in 1 .. Len(x) : x[i] = y[i]
\* PartialEq::ne for str
str_ne(x, y) == ~str_eq(x, y)
\* Ord::cmp for str: the bytes compared up to the shorter length, at the
\* first difference; without one, the lengths compared
str_cmp(x, y) ==
    LET l == IF Len(x) < Len(y) THEN Len(x) ELSE Len(y)
        diff == {i \in 1 .. l : x[i] # y[i]}
    IN  IF diff = {} THEN int_cmp(Len(x), Len(y))
        ELSE LET i == CHOOSE j \in diff : \A k \in diff : j <= k
             IN  int_cmp(x[i], y[i])
\* Hash::hash for str: what the Hasher is fed, the bytes and then 0xff
str_hash(x) == Append(x, 255)

\* a faulty variant: || in place of &&
ne_or(p, q) ==
    Res(~ptr_eq(p, q).ret \/ str_ne(as_str(p).ret, as_str(q).ret),
        as_str(p).acc \cup as_str(q).acc)
\* PartialEq::ne for ArcStr: !ptr_eq(self, o) && self.as_str() != o.as_str()
ne(p, q) ==
    IF ptr_eq(p, q).ret
    THEN Res(FALSE, {})
    ELSE Res(str_ne(as_str(p).ret, as_str(q).ret),
             as_str(p).acc \cup as_str(q).acc)
\* Index<RangeFull>: &self.as_str()[..]
index_full(p) == as_str(p)
\* impl PartialEq<str, &str, String, ...> for ArcStr: eq(&self[..], &s[..])
eq_str(p, s) == Res(str_eq(index_full(p).ret, s), index_full(p).acc)
\* ... and ne(&self[..], &s[..])
ne_str(p, s) == Res(str_ne(index_full(p).ret, s), index_full(p).acc)
\* impl PartialEq<ArcStr> for str, &str, String, ...: eq(&self[..], &s[..])
str_eq_arc(s, p) == Res(str_eq(s, index_full(p).ret), index_full(p).acc)
\* ... and ne(&self[..], &s[..])
str_ne_arc(s, p) == Res(str_ne(s, index_full(p).ret), index_full(p).acc)

\* a faulty variant: the shorter content first
cmp_shorter_first(p, q) ==
    LET x == as_str(p).ret
        y == as_str(q).ret
    IN  Res(IF Len(x) # Len(y) THEN int_cmp(Len(x), Len(y)) ELSE str_cmp(x, y),
            as_str(p).acc \cup as_str(q).acc)
\* Ord::cmp for ArcStr: self.as_str().cmp(s.as_str())
cmp(p, q) ==
    Res(str_cmp(as_str(p).ret, as_str(q).ret), as_str(p).acc \cup as_str(q).acc)
\* PartialOrd::partial_cmp for ArcStr: Some(self.as_str().cmp(s.as_str()))
partial_cmp(p, q) ==
    Res(Some(str_cmp(as_str(p).ret, as_str(q).ret)),
        as_str(p).acc \cup as_str(q).acc)
\* a faulty variant: the pointer is hashed
hash_ptr(p) == Res(<<p>>, {})
\* Hash::hash for ArcStr: self.as_str().hash(h)
hash(p) == Res(str_hash(as_str(p).ret), as_str(p).acc)

\* C17: == on Handles is equality of content with a short cut on
\* identity: a == b iff ptr_eq(a, b) or the contents are the same bytes;
\* ptr_eq(a, b) implies a == b; a != b is the negation of a == b; and for
\* a Handle and a str (or String, Cow, Box, Arc, Rc of str), in either
\* order, == holds iff the content of the Handle is the str and != is its
\* negation.
C17_EqIsContentEq ==
    /\ \A p \in Held, q \in Held :
          /\ eq(p, q).ret <=> (ptr_eq(p, q).ret \/ mem[p].data = mem[q].data)
          /\ ptr_eq(p, q).ret => eq(p, q).ret
          /\ ne(p, q).ret <=> ~eq(p, q).ret
          /\ eq(p, q).ret <=> eq(q, p).ret
    /\ \A p \in Held, s \in Contents :
          /\ eq_str(p, s).ret <=> (mem[p].data = s)
          /\ ne_str(p, s).ret <=> ~eq_str(p, s).ret
          /\ str_eq_arc(s, p).ret <=> (mem[p].data = s)
          /\ str_ne_arc(s, p).ret <=> ~str_eq_arc(s, p).ret
\* the program holds Handles to two records of content "ab" (the literal
\* and a dynamic one) and two Handles to a record of content "a"
C17_Witness ==
    \E p \in ValueHeap, q \in ValueHeap :
        /\ {LITERAL, p, q} \subseteq Held /\ handles[Main][q] = 2
        /\ mem[p].data = <<97, 98>> /\ mem[q].data = <<97>>
        /\ eq(p, LITERAL).ret /\ ne(p, q).ret /\ eq(q, q).ret

\* C18: a Handle and its clone are ptr_eq, for a dynamic and for a static
\* record; a Handle constructed from non-empty content is ptr_eq to no
\* Handle there was, and yet == to every Handle of the same content and
\* hashed as they are: hash feeds the Hasher what the hash of the str
\* content feeds it, so that equal Handles hash alike and a map keyed by
\* ArcStr can be looked up by &str.
C18_IdentityAndHash ==
    /\ [][/\ \A p \in Held :
               (handles' # handles /\ (CloneBegin(Main, p) \/
                                      (CloneFetchAdd(Main) /\ this[Main] = p)))
                  => /\ handles' = [handles EXCEPT ![Main][p] = @ + 1]
                     /\ ptr_eq(p, clone_result(p)).ret
                     /\ is_static(p).ret' = is_static(p).ret
          /\ \A s \in Contents :
               (Len(s) > 0 /\ handles' # handles /\ From_str(Main, s))
                  => \E p \in Held' \ Held :
                        /\ \A q \in Held : ~ptr_eq(p, q).ret
                        /\ \A q \in Held' :
                              mem'[q].data = s
                                 => /\ eq(p, q).ret'
                                    /\ hash(p).ret' = hash(q).ret'
                        /\ hash(p).ret' = str_hash(s)
         ]_vars
    /\ [](\A p \in Held, q \in Held :
             /\ ptr_eq(p, q).ret <=> (p = q)
             /\ eq(p, q).ret => hash(p).ret = hash(q).ret
             /\ hash(p).ret = str_hash(mem[p].data)
             /\ (hash(p).ret = hash(q).ret) => eq(p, q).ret)
\* two Handles constructed one after the other from "ab" and a clone of
\* the second: two records of the same content
C18_Witness ==
    \E p \in ValueHeap, q \in ValueHeap :
        /\ p # q /\ handles[Main][p] = 1 /\ handles[Main][q] = 2
        /\ as_bytes(p).ret = <<97, 98>> /\ as_bytes(q).ret = <<97, 98>>
        /\ ~ptr_eq(p, q).ret /\ eq(p, q).ret /\ hash(p).ret = hash(q).ret

\* the order of two contents: x is less than y when x is a proper prefix
\* of y, or when, after a common prefix, the next byte of x is the smaller
LexLess(x, y) ==
    \E k \in 0 .. Len(x) :
        /\ k <= Len(y)
        /\ \A i \in 1 .. k : x[i] = y[i]
        /\ \/ k = Len(x) /\ k < Len(y)
           \/ k < Len(x) /\ k < Len(y) /\ x[k + 1] < y[k + 1]
\* Ordering::reverse
reverse(o) == IF o = Less THEN Greater ELSE IF o = Greater THEN Less ELSE Equal

\* C19: the order of Handles is the byte-wise lexicographic order of their
\* contents: cmp is Less when the content of the first is less, Greater
\* when the content of the second is less, Equal otherwise;
\* partial_cmp is Some of the same; cmp is Equal exactly when the Handles
\* are ==, ptr_eq Handles included; and cmp the other way round is the
\* reverse.
C19_OrdIsLexicographic ==
    \A p \in Held, q \in Held :
        LET x == mem[p].data
            y == mem[q].data
        IN  /\ cmp(p, q).ret = (IF LexLess(x, y) THEN Less
                                ELSE IF LexLess(y, x) THEN Greater ELSE Equal)
            /\ partial_cmp(p, q).ret = Some(cmp(p, q).ret)
            /\ (cmp(p, q).ret = Equal) <=> eq(p, q).ret
            /\ ptr_eq(p, q).ret => cmp(p, q).ret = Equal
            /\ cmp(q, p).ret = reverse(cmp(p, q).ret)
\* the program holds Handles of content "b" and "ab": the longer content
\* is the lesser
C19_Witness ==
    \E p \in ValueHeap, q \in ValueHeap :
        /\ {p, q, EMPTY} \subseteq Held
        /\ mem[p].data = <<98>> /\ mem[q].data = <<97, 98>>
        /\ cmp(q, p).ret = Less /\ cmp(EMPTY, q).ret = Less

\* C20: as_static of a Handle is Some of its content exactly when
\* is_static of it is true, and None exactly when its record is dynamic;
\* it reads the header and, for a static record, the payload, and nothing
\* else (no count, no allocation); and what it returned stays valid when
\* no Handle to the record is left: a static record is never deallocated
\* or written, and as_static of it is the same after every step.
C20_AsStatic ==
    /\ [](\A p \in Allocated :
             /\ is_static(p).ret => as_static(p).ret = Some(mem[p].data)
             /\ ~is_static(p).ret => as_static(p).ret = None
             /\ is_static(p).ret <=> (alloc[p] = "static")
             /\ \A x \in as_static(p).acc :
                   /\ x.addr = p /\ x.kind = "read"
                   /\ x.field \in {"len_flags", "data"}
                   /\ x.field = "data" => is_static(p).ret)
    /\ [][\A p \in Allocated :
            is_static(p).ret
               => /\ p \in Allocated' /\ mem'[p] = mem[p] /\ frees'[p] = 0
                  /\ as_static(p).ret' = as_static(p).ret
         ]_vars
\* as_static is Some("ab") on the Handle to the literal, Some("") on the
\* Handle to the empty record and None on a Handle of content "ab"
C20_Witness ==
    \E p \in ValueHeap :
        /\ {LITERAL, EMPTY, p} \subseteq Held
        /\ as_static(LITERAL).ret = Some(<<97, 98>>)
        /\ as_static(EMPTY).ret = Some(<< >>)
        /\ as_bytes(p).ret = <<97, 98>> /\ as_static(p).ret = None

(***************************************************************************)
(* Construction is complete before the Handle exists.                      *)
(***************************************************************************)

\* C21: no partially constructed record is observable: allocate writes the
\* header (the length with the dynamic bit), the count 1 and every payload
\* byte before it returns the pointer, so the step that hands out a Handle
\* to a new record leaves the whole record written from the source content,
\* and in every state a dynamic record a Handle is held to is live, has a
\* header that decodes to the length of its payload, and a count of 1 or
\* more.
C21_NoPartialRecord ==
    /\ [](\A p \in Held :
            ~LenFlags_is_static(get_len_flags(p)) =>
                /\ alloc[p] = "live"
                /\ len(p).ret = Len(mem[p].data)
                /\ mem[p].strong >= 1
                /\ \A i \in DOMAIN as_bytes(p).ret :
                       as_bytes(p).ret[i] # OutOfBounds)
    /\ [][\A s \in Contents :
            handles' # handles /\ ~str_is_empty(s) /\ From_str(Main, s) =>
                \E p \in ValueHeap :
                    /\ alloc[p] = "unalloc"
                    /\ handles' = Gain(Main, p)
                    /\ get_len_flags(p)' = 2 * Len(s) + 1
                    /\ mem'[p].strong = 1
                    /\ mem'[p].data = s
                    /\ as_bytes(p).ret' = s]_vars
\* the only Handle of a record that was just constructed from "ab"
C21_Witness ==
    \E p \in Held :
        /\ alloc[p] = "live"
        /\ handles[Main][p] = 1
        /\ mem[p] = [len_flags |-> 5, strong |-> 1, data |-> <<97, 98>>]

(***************************************************************************)
(* Clone and drop are straight-line code.                                  *)
(***************************************************************************)
\* the steps a thread at pc value at has left in its clone or drop, at most:
\* clone is fetch_add and return; drop is fetch_sub, the Acquire load and
\* destroy_cold
StepsLeft(at) ==
    CASE at = "clone_add" -> 1
      [] at = "drop_sub"  -> 3
      [] at = "drop_acq"  -> 2
      [] at = "destroy"   -> 1
      [] OTHER            -> 0

\* C22: clone and drop are lock-free and non-blocking: a thread inside a
\* clone or a drop can always take its next step, wherever the other threads
\* are, stalled in the middle of an operation or not; each of its steps
\* brings it strictly closer to the end (no step is retried), so a clone is
\* over after 2 of its own steps and a drop after 4; and no step of another
\* thread moves it.
C22_LockFree ==
    /\ [](\A t \in Threads :
            ~aborted /\ StepsLeft(pc[t]) > 0 => ENABLED Continue(t))
    /\ [][\A t \in Threads :
            /\ StepsLeft(pc[t]) > 0 /\ pc'[t] # pc[t] =>
                   Continue(t) /\ StepsLeft(pc'[t]) < StepsLeft(pc[t])
            /\ StepsLeft(pc[t]) > 0 /\ Continue(t) =>
                   StepsLeft(pc'[t]) < StepsLeft(pc[t]) \/ aborted'
            /\ StepsLeft(pc'[t]) <= 3]_vars
\* a thread is inside a clone of a record while another is stalled inside a
\* drop of the same record
C22_Witness ==
    \E t, u \in Threads, p \in Heap :
        /\ t # u
        /\ pc[t] = "clone_add" /\ this[t] = p
        /\ pc[u] = "drop_sub" /\ this[u] = p

(***************************************************************************)
(* Indexing by a range: impl Index<Range...> for ArcStr, one Handle-owning  *)
(* thread, contents with characters of one and of two bytes.               *)
(***************************************************************************)
\* the largest index of a range, short of usize::MAX
MaxIndex == 4
\* the contents indexed: "", "ab", "a\u{e9}", "\u{e9}b"
IndexContents == {<< >>, <<97, 98>>, <<97, 195, 169>>, <<195, 169, 98>>}
Indices == (0 .. MaxIndex) \cup {USIZE_MAX}
\* the six range types of impl_index!
Ranges ==
    {[kind |-> "RangeFull", start |-> 0, end |-> 0]}
    \cup [kind : {"Range", "RangeInclusive"}, start : Indices, end : Indices]
    \cup [kind : {"RangeFrom"}, start : Indices, end : {0}]
    \cup [kind : {"RangeTo", "RangeToInclusive"}, start : {0}, end : Indices]

\* str::is_char_boundary: the ends of the string, and every byte that is
\* not a continuation byte of UTF-8 (0x80 ..= 0xBF)
is_char_boundary(s, i) ==
    \/ i = 0
    \/ i = Len(s)
    \/ i < Len(s) /\ s[i + 1] \notin 128 .. 191
\* str[start..end]: Some(the bytes from start up to end), or None for the
\* panic on a range out of bounds or off a character boundary
str_slice(s, start, end) ==
    IF /\ start <= end
       /\ end <= Len(s)
       /\ is_char_boundary(s, start)
       /\ is_char_boundary(s, end)
    THEN Some(SubSeq(s, start + 1, end))
    ELSE None
\* str[i], for each of the six range types; an inclusive range up to
\* usize::MAX panics, any other is the range up to end + 1
str_index(s, i) ==
    CASE i.kind = "RangeFull" -> Some(s)
      [] i.kind = "Range" -> str_slice(s, i.start, i.end)
      [] i.kind = "RangeFrom" -> str_slice(s, i.start, Len(s))
      [] i.kind = "RangeTo" -> str_slice(s, 0, i.end)
      [] i.kind = "RangeInclusive" ->
             IF i.end = USIZE_MAX THEN None
             ELSE str_slice(s, i.start, i.end + 1)
      [] i.kind = "RangeToInclusive" ->
             IF i.end = USIZE_MAX THEN None
             ELSE str_slice(s, 0, i.end + 1)

\* a faulty variant: a range that runs past the end is cut off at the end
index_clamped(p, i) ==
    LET s == as_str(p).ret
        cut(n) == IF n > Len(s) THEN Len(s) ELSE n
    IN  Res(str_index(s, [i EXCEPT !.start = cut(@), !.end = cut(@)]),
            as_str(p).acc)
\* Index::index: &self.as_str()[i]
index(p, i) == Res(str_index(as_str(p).ret, i), as_str(p).acc)

\* h[i] on a Handle thread t owns: a slice is borrowed, or the thread panics
Index(t, p, i) ==
    /\ Idle(t)
    /\ handles[t][p] > 0
    /\ IF index(p, i).ret = None
       THEN pc' = [pc EXCEPT ![t] = "panicked"]
       ELSE UNCHANGED pc
    /\ UNCHANGED <<mem, alloc, layout, frees, handles, raw, this, aborted>>

IndexNext ==
    \/ \E s \in IndexContents : From_str(Main, s)
    \/ \E p \in Addrs, i \in Ranges : Index(Main, p, i)
    \/ \E p \in Addrs : CloneBegin(Main, p)
    \/ CloneFetchAdd(Main)
    \/ \E p \in Addrs : DropBegin(Main, p)
    \/ DropFetchSub(Main)
    \/ DropAcquire(Main)
    \/ DestroyCold(Main)

IndexSpec == Init /\ [][IndexNext]_vars

\* a range: start..end
Range(start, end) == [kind |-> "Range", start |-> start, end |-> end]
\* the ranges that are in bounds of s and on its character boundaries
InBounds(s, start, end) ==
    /\ start <= end
    /\ end <= Len(s)
    /\ \A n \in {start, end} : n \in 1 .. Len(s) - 1 => s[n + 1] \notin 128 .. 191

\* C23: indexing a Handle of content c by a range gives what indexing c
\* gives, for each of the six range types: the bytes of c from start up to
\* end when the range is in bounds and on character boundaries, with
\* start..=end the same as start..end+1, ..end as 0..end, start.. as
\* start..len and .. as the whole; any other range faults.  The fault is a
\* panic of the indexing thread that changes no record, no count and no
\* Handle, and indexing never accesses the count.
C23_IndexIsStrIndex ==
    /\ [](\A p \in Held, i \in Ranges :
            LET c == mem[p].data
                start == IF i.kind \in {"Range", "RangeInclusive", "RangeFrom"}
                         THEN i.start ELSE 0
                end == CASE i.kind \in {"Range", "RangeTo"} -> i.end
                         [] i.kind \in {"RangeInclusive", "RangeToInclusive"} ->
                                i.end + 1
                         [] OTHER -> Len(c)
            IN  /\ index(p, i).ret = str_index(c, i)
                /\ index(p, i).ret = index(p, Range(start, end)).ret
                /\ index(p, i).ret =
                       IF InBounds(c, start, end)
                       THEN Some([n \in 1 .. end - start |-> c[start + n]])
                       ELSE None
                /\ \A a \in index(p, i).acc : a.field # "strong" /\ a.st # "freed")
    /\ [][pc[Main] = "idle" /\ pc'[Main] = "panicked" =>
            /\ UNCHANGED <<mem, alloc, layout, frees, handles, raw, this,
                           aborted>>
            /\ \E p \in Held, i \in Ranges :
                   index(p, i).ret = None /\ Index(Main, p, i)]_vars
\* the thread has panicked on a range that splits the two-byte character of
\* a shared record, whose count is still 2
C23_Witness ==
    \E p \in Held :
        /\ pc[Main] = "panicked"
        /\ mem[p].data = <<97, 195, 169>>
        /\ mem[p].strong = 2
        /\ index(p, Range(1, 2)).ret = None
        /\ index(p, Range(1, 3)).ret = Some(<<195, 169>>)

(***************************************************************************)
(* The order of the steps of the last drop.                                *)
(***************************************************************************)
\* the accesses of the step thread t takes next are all of this kind and
\* ordering, on this field of the record its operation is on
NextAccess(t, field, kind, ord) ==
    /\ Pending(t).acc # {}
    /\ \A a \in Pending(t).acc :
           a.addr = this[t] /\ a.field = field /\ a.kind = kind /\ a.ord = ord

\* C24: the drop that takes the count of a dynamic record from 1 to 0 goes
\* through its steps in this order: the read of the discriminant in
\* len_flags, the Release fetch_sub, the Acquire load of the count,
\* destroy_cold's second read of len_flags for the length, the dealloc.
\* When the block is deallocated every other share of the record has been
\* decremented: no Handle, no raw pointer and no drop short of its fetch_sub
\* is left, and the count is 0.  The increment of clone is Relaxed.
C24_DropOrder ==
    [][\A t \in Threads :
          /\ pc'[t] = "drop_sub" /\ pc[t] # "drop_sub" =>
                 /\ pc[t] = "idle"
                 /\ \E o \in Calls(t) :
                        /\ o.op = "drop"
                        /\ o.acc = {Rd(this'[t], "len_flags")}
                 /\ ~LenFlags_is_static(get_len_flags(this'[t]))
          /\ pc'[t] = "drop_acq" /\ pc[t] # "drop_acq" =>
                 /\ pc[t] = "drop_sub"
                 /\ NextAccess(t, "strong", "fetch_sub", "Release")
                 /\ mem[this[t]].strong = 1
                 /\ mem'[this[t]].strong = 0
          /\ pc'[t] = "destroy" /\ pc[t] # "destroy" =>
                 /\ pc[t] = "drop_acq"
                 /\ NextAccess(t, "strong", "load", "Acquire")
                 /\ UNCHANGED <<mem, alloc, frees>>
          /\ pc[t] = "destroy" /\ pc'[t] # "destroy" =>
                 LET p == this[t] IN
                 /\ Pending(t).acc =
                        {Rd(p, "len_flags"), Acc(p, "block", "dealloc", "plain")}
                 /\ alloc[p] = "live" /\ alloc'[p] = "freed"
                 /\ Shares(p) = 0
                 /\ Dropping(p) = {} /\ Cloning(p) = {}
                 /\ mem[p].strong = 0
          /\ pc[t] = "clone_add" =>
                 NextAccess(t, "strong", "fetch_add", "Relaxed")
          /\ \A p \in Heap :
                 alloc'[p] = "freed" /\ alloc[p] # "freed" =>
                     \E u \in Threads : pc[u] = "destroy" /\ this[u] = p
      ]_vars
\* a drop has taken the count of a live record to 0 and is about to
\* deallocate it, while another thread holds a Handle to the empty record
C24_Witness ==
    \E t, u \in Threads, p \in Heap :
        /\ t # u
        /\ pc[t] = "destroy" /\ this[t] = p
        /\ alloc[p] = "live" /\ mem[p].strong = 0
        /\ pc[u] = "idle" /\ handles[u][EMPTY] > 0

(***************************************************************************)
(* Lengths up to the limit of allocate: one thread constructs records of   *)
(* the shortest and of the longest contents allocate accepts, and of the   *)
(* shortest it refuses, clones them and drops them.                        *)
(***************************************************************************)
\* how many lengths are taken at each end of the accepted range
NearLimit == 3
\* the first length allocate refuses: (isize::MAX as usize) - (mo + ALIGN)
SizeLimit == ISIZE_MAX - (OFFSET_DATA + ALIGN)
\* the lengths of the contents constructed from: the shortest, the ones
\* about the limit of allocate, the ones about half the range of usize,
\* where twice the length overflows, and the longest
Lengths ==
    (1 .. NearLimit)
    \cup (SizeLimit - NearLimit .. SizeLimit + NearLimit - 1)
    \cup (ISIZE_MAX + 1 - NearLimit .. ISIZE_MAX + NearLimit)
    \cup {USIZE_MAX}
\* a content of n bytes
Filled(n) == SubSeq([i \in 1 .. n |-> 97], 1, n)
SizeContents == {Filled(n) : n \in Lengths}

SizeNext ==
    \/ \E s \in SizeContents : From_str(Main, s)
    \/ \E p \in Addrs : CloneBegin(Main, p)
    \/ CloneFetchAdd(Main)
    \/ \E p \in Addrs : DropBegin(Main, p)
    \/ DropFetchSub(Main)
    \/ DropAcquire(Main)
    \/ DestroyCold(Main)

SizeSpec == Init /\ [][SizeNext]_vars

\* C25: for every dynamic record, the size and the alignment destroy_cold
\* hands to dealloc (the length decoded from len_flags plus the offset of
\* the payload, and the alignment of ThinInner) are the size and the
\* alignment allocate handed to alloc for that record (the length of the
\* content plus the same offset, the same alignment), for every length of
\* content allocate accepts: at the step that deallocates, and all the
\* while the record is live.
C25_DeallocLayoutIsAllocLayout ==
    /\ [](\A p \in Heap :
            alloc[p] = "live" =>
                /\ destroy_layout(get_len_flags(p)) = layout[p]
                /\ layout[p] = <<Len(mem[p].data) + OFFSET_DATA, ALIGN>>)
    /\ [][\A s \in SizeContents :
            handles' # handles /\ From_str(Main, s) /\ ~str_is_empty(s) =>
                \E p \in Heap :
                    /\ alloc[p] = "unalloc" /\ alloc'[p] = "live"
                    /\ layout'[p] = <<Len(s) + OFFSET_DATA, ALIGN>>]_vars
    /\ [][\A p \in Heap :
            alloc[p] = "live" /\ alloc'[p] = "freed" =>
                /\ pc[Main] = "destroy" /\ this[Main] = p
                /\ destroy_layout(get_len_flags(p)) = layout[p]]_vars
\* the record of the longest content allocate accepts is about to be
\* deallocated
C25_Witness ==
    \E p \in Heap :
        /\ pc[Main] = "destroy" /\ this[Main] = p
        /\ alloc[p] = "live"
        /\ Len(mem[p].data) = SizeLimit - 1
        /\ layout[p] = <<ISIZE_MAX - ALIGN - 1, ALIGN>>

\* C26: the packed header round-trips and never overflows for the lengths
\* allocate accepts: for every length L that passes the size check and
\* either discriminant s, the header (L << 1) | (s is dynamic) decodes to
\* len() = L and is_static() = s, the unchecked from_len_static_raw gives
\* what the checked from_len_static gives and wraps no bit away (twice L
\* plus the flag fits usize); from_len_static is None exactly when twice L
\* overflows usize; and the header of every live record is the encoding of
\* the length of its payload with the dynamic bit.
C26_HeaderRoundTrip ==
    /\ [](\A p \in Heap :
            alloc[p] = "live" =>
                LET L == Len(mem[p].data) IN
                /\ ~alloc_overflows(L)
                /\ get_len_flags(p) = LenFlags_from_len_static_raw(L, FALSE)
                /\ get_len_flags(p) = 2 * L + 1
                /\ len(p).ret = L
                /\ is_static(p).ret = FALSE)
    /\ [][\A c \in SizeContents :
            /\ pc[Main] = "idle"
            /\ handles' # handles \/ pc'[Main] = "panicked"
            /\ From_str(Main, c)
            => LET L == Len(c) IN
               /\ alloc_overflows(L) <=> pc'[Main] = "panicked"
               /\ \A s \in BOOLEAN :
                      LET lf == LenFlags_from_len_static_raw(L, s) IN
                      /\ (LenFlags_from_len_static(L, s) = None)
                             <=> (2 * L > USIZE_MAX)
                      /\ ~alloc_overflows(L) =>
                             /\ 2 * L + 1 <= USIZE_MAX
                             /\ lf = 2 * L + (IF s THEN 0 ELSE 1)
                             /\ LenFlags_from_len_static(L, s) = Some(lf)
                             /\ LenFlags_len(lf) = L
                             /\ LenFlags_is_static(lf) = s]_vars
\* two Handles share the record of the longest content allocate accepts
C26_Witness ==
    \E p \in Heap :
        /\ handles[Main][p] = 2
        /\ alloc[p] = "live"
        /\ get_len_flags(p) = 2 * (SizeLimit - 1) + 1
        /\ pc[Main] = "idle"

(***************************************************************************)
(* The layout of the three record types: #[repr(C, align(8))] structs of   *)
(* a header word, a count word and the payload.                            *)
(***************************************************************************)
Field(name, size, align) == [name |-> name, size |-> size, align |-> align]
\* InnerRepr<RcTy> { len_flags: LenFlags, strong: RcTy, data: [u8; 0] };
\* LenFlags is a transparent usize, RcTy is AtomicUsize or usize
InnerRepr_fields ==
    <<Field("len_flags", USIZE_BYTES, USIZE_BYTES),
      Field("strong", USIZE_BYTES, USIZE_BYTES),
      Field("data", 0, 1)>>
\* type ThinInner = InnerRepr<AtomicUsize>
ThinInner_fields == InnerRepr_fields
\* type ThinInnerStatic = InnerRepr<usize>
ThinInnerStatic_fields == InnerRepr_fields
\* a faulty variant: the count declared ahead of the header word
StaticArcStrInner_fields_count_first(n) ==
    <<Field("strong", USIZE_BYTES, USIZE_BYTES),
      Field("len_flags", USIZE_BYTES, USIZE_BYTES),
      Field("data", n, 1)>>
\* StaticArcStrInner<[u8; n]> { len_flags: usize, count: usize, data: Buf };
\* the count field goes by the name it has in InnerRepr
StaticArcStrInner_fields(n) ==
    <<Field("len_flags", USIZE_BYTES, USIZE_BYTES),
      Field("strong", USIZE_BYTES, USIZE_BYTES),
      Field("data", n, 1)>>
\* the buffer sizes verify_type_pun_offsets_sasi_big_bufs goes through
BufSizes == {0, 1, 2, 3, 4, 5, 15, 16, 64, 128, 1024, 4095, 4096}

\* n rounded up to a multiple of a
round_up(n, a) == ((n + a - 1) \div a) * a
\* repr(C): each field sits at the end of the one before it, rounded up to
\* its own alignment
RECURSIVE field_offset(_, _)
field_offset(fields, k) ==
    IF k = 1 THEN 0
    ELSE round_up(field_offset(fields, k - 1) + fields[k - 1].size,
                  fields[k].align)
\* memoffset::offset_of!
offset_of(fields, name) ==
    field_offset(fields, CHOOSE k \in DOMAIN fields : fields[k].name = name)
\* the field a read at a byte offset of a record of this layout lands on
field_at(fields, offset) ==
    {fields[k].name : k \in {j \in DOMAIN fields :
                                 field_offset(fields, j) = offset}}
\* size_of, with the alignment of repr(align(8))
size_of(fields) ==
    LET k == Len(fields)
    IN  round_up(field_offset(fields, k) + fields[k].size, ALIGN)
\* the layout of the record behind a pointer: the canonical empty record is a
\* ThinInnerStatic, a record a literal embeds is a StaticArcStrInner of the
\* literal's length, a heap record is a ThinInner
layout_of(p) ==
    CASE p = EMPTY -> ThinInnerStatic_fields
      [] p = LITERAL -> StaticArcStrInner_fields(Len(mem[p].data))
      [] OTHER -> ThinInner_fields

\* C27: the discriminant, the count and the payload sit at the same offsets
\* in ThinInner, ThinInnerStatic and StaticArcStrInner<Buf>, whatever the
\* size of the buffer: len_flags at offset 0, the count at the same offset
\* in the three, the payload at the same offset, the one allocate and
\* destroy_cold compute sizes with; ThinInner and ThinInnerStatic have the
\* same size.  So the reads len(), is_static() and as_bytes() make at
\* ThinInner's offsets land on the header and the payload of the record of
\* any Handle held, and give the length of its content, whether it is
\* static, and its content, without knowing which representation it has.
C27_SameOffsets ==
    /\ offset_of(ThinInner_fields, "len_flags") = 0
    /\ offset_of(ThinInner_fields, "data") = OFFSET_DATA
    /\ size_of(ThinInner_fields) = size_of(ThinInnerStatic_fields)
    /\ \A f \in {"len_flags", "strong", "data"} :
           /\ offset_of(ThinInnerStatic_fields, f) = offset_of(ThinInner_fields, f)
           /\ \A n \in BufSizes :
                  offset_of(StaticArcStrInner_fields(n), f)
                      = offset_of(ThinInner_fields, f)
    /\ \A p \in Held :
           /\ "len_flags" \in
                  field_at(layout_of(p), offset_of(ThinInner_fields, "len_flags"))
           /\ "data" \in
                  field_at(layout_of(p), offset_of(ThinInner_fields, "data"))
           /\ len(p).ret = Len(mem[p].data)
           /\ is_static(p).ret = (alloc[p] = "static")
           /\ as_bytes(p).ret = mem[p].data
\* Handles of the three representations are held at once: the canonical
\* empty record, a literal's record and a heap record
C27_Witness ==
    /\ {EMPTY, LITERAL} \subseteq Held
    /\ \E p \in ValueHeap : p \in Held /\ alloc[p] = "live"

(***************************************************************************)
(* Dynamic records are never empty.                                        *)
(***************************************************************************)

\* C28: every dynamic record has a length of 1 or more: a step allocates a
\* record only for content that is not empty, so in every state a Handle of
\* length 0 is to a static record and its strong_count is None, a Handle
\* whose strong_count is Some(n) has content of 1 byte or more (and n is 1
\* or more), and no live record of the heap has length 0.
C28_DynamicIsNonEmpty ==
    /\ [](\A p \in Held :
            /\ len(p).ret = 0 =>
                   /\ is_static(p).ret
                   /\ alloc[p] = "static"
                   /\ strong_count(p).ret = None
            /\ strong_count(p).ret # None =>
                   /\ len(p).ret >= 1
                   /\ Len(as_str(p).ret) >= 1
                   /\ strong_count(p).ret[1] >= 1)
    /\ [](\A p \in ValueHeap :
            alloc[p] # "unalloc" =>
                LenFlags_len(get_len_flags(p)) >= 1 /\ Len(mem[p].data) >= 1)
    /\ [][\A p \in ValueHeap :
            alloc[p] = "unalloc" /\ alloc'[p] = "live" =>
                \E s \in Contents :
                    Len(s) >= 1 /\ mem'[p].data = s /\ From_str(Main, s)]_vars
\* Handles of length 0 and of length 1 are held: the first reports no
\* count, the second a count of 2
C28_Witness ==
    \E p, q \in Held :
        /\ len(p).ret = 0 /\ strong_count(p).ret = None
        /\ len(q).ret = 1 /\ strong_count(q).ret = Some(2)

(***************************************************************************)
(* The overflow guard of clone, case by case.                              *)
(***************************************************************************)

\* C29: clone of a dynamic record increments first and checks afterwards:
\* its fetch_add step aborts the process exactly when the count it found
\* was strictly above isize::MAX.  A clone that finds exactly isize::MAX
\* returns its Handle and leaves the count at isize::MAX + 1; a clone that
\* aborts has stored the incremented count, has handed out no Handle and
\* never returns; and nothing else aborts the process.
C29_IncrementThenCheck ==
    [][/\ \A t \in Threads :
            pc[t] = "clone_add" /\ CloneFetchAdd(t) =>
                LET p == this[t]
                    prev == mem[p].strong
                IN  /\ prev = ISIZE_MAX =>
                           /\ ~aborted'
                           /\ mem'[p].strong = ISIZE_MAX + 1
                           /\ handles' = Gain(t, p)
                           /\ pc'[t] = "idle"
                    /\ prev > ISIZE_MAX =>
                           /\ aborted'
                           /\ mem'[p].strong = prev + 1
                           /\ handles' = handles
                           /\ pc'[t] = "clone_add"
                    /\ prev < ISIZE_MAX => ~aborted' /\ mem'[p].strong <= ISIZE_MAX
       /\ aborted' /\ ~aborted =>
              \E t \in Threads :
                  /\ pc[t] = "clone_add"
                  /\ mem[this[t]].strong > ISIZE_MAX
                  /\ CloneFetchAdd(t)
      ]_vars
\* a clone found the count at exactly isize::MAX and returned: the process
\* runs, the count is isize::MAX + 1, and the thread has two Handles
C29_Witness ==
    /\ ~aborted
    /\ mem[Leaky].strong = ISIZE_MAX + 1
    /\ \E t \in Threads : pc[t] = "idle" /\ handles[t][Leaky] = 2

(***************************************************************************)
(* Conversions into Cow<str>.                                              *)
(***************************************************************************)

\* C30: converting an owned Handle into Cow<str> consumes exactly one
\* share.  For a static Handle the Cow borrows the static content: nothing
\* is allocated, the count is not accessed, and the conversion is over with
\* the Handle gone.  For a dynamic Handle the Cow owns a copy equal to the
\* content, and the drop of the Handle follows: with the count at n, the
\* decrement leaves n - 1, and when n was 1 the record goes on to be
\* deallocated.  Converting a borrowed &ArcStr gives a Cow that borrows
\* the content, with no access to the count.
C30_IntoCow ==
    /\ [](\A p \in Held :
            /\ cow_from_ref(p).ret = <<"Borrowed", mem[p].data>>
            /\ \A a \in cow_from_ref(p).acc : a.field # "strong"
            /\ alloc[p] = "static" =>
                   /\ cow_from(p).ret = <<"Borrowed", mem[p].data>>
                   /\ \A a \in cow_from(p).acc : a.field # "strong"
            /\ alloc[p] = "live" =>
                   cow_from(p).ret = <<"Owned", mem[p].data>>)
    /\ [][\A p \in ValueAddrs :
            handles' # handles /\ IntoCow(Main, p) =>
                /\ handles' = Lose(Main, p)
                /\ UNCHANGED <<mem, alloc, layout, frees, aborted>>
                /\ alloc[p] = "static" => UNCHANGED <<pc, this>>
                /\ alloc[p] = "live" =>
                       pc'[Main] = "drop_sub" /\ this'[Main] = p]_vars
    /\ [][pc[Main] = "drop_sub" /\ pc'[Main] # "drop_sub" =>
            LET p == this[Main]
                n == mem[p].strong
            IN  /\ mem'[p].strong = n - 1
                /\ alloc'[p] = "live"
                /\ IF n = 1 THEN pc'[Main] = "drop_acq"
                   ELSE pc'[Main] = "idle" /\ handles[Main][p] = n - 1]_vars
    /\ [][pc[Main] = "destroy" /\ pc'[Main] # "destroy" =>
            alloc'[this[Main]] = "freed" /\ Shares(this[Main]) = 0]_vars
\* the only Handle of a dynamic record has been converted: the copy is
\* made, the Handle is gone and its drop is about to take the count from 1
\* to 0, while a literal's Handle is held that converts to a borrow
C30_Witness ==
    \E p \in ValueHeap :
        /\ pc[Main] = "drop_sub" /\ this[Main] = p
        /\ mem[p].strong = 1 /\ handles[Main][p] = 0
        /\ LITERAL \in Held
        /\ cow_from(LITERAL).ret = <<"Borrowed", <<97, 98>>>>
=============================================================================
